---- MODULE Spec2Model ----
(***************************************************************************)
(* The production request dispatcher of next-server (server/next-server.ts) *)
(* as a state machine: one request at a time travels through              *)
(* handleRequest -> run -> route handler -> render / serveStatic /         *)
(* render404 -> renderError -> sendHTML.  The collaborators the file       *)
(* imports (router, utils, load-components, render, send-html,             *)
(* serve-static) are called through their interfaces: each call is a step  *)
(* whose outcome is chosen from the outcomes the collaborator can produce. *)
(* res.statusCode and the Cache-Control header are the values this file    *)
(* assigns; what happens inside a collaborator is not part of the model.   *)
(***************************************************************************)
EXTENDS Integers, Sequences, FiniteSets, TLC

\* ------------------------------------------------------------- bounds
\* Longest wildcard capture (segments after the namespace prefix) of a request path.
MaxTail == 2
\* Most ".json" suffixes a request pathname ends in.
MaxJson == 2
\* Most nested handleRequest calls (render re-dispatches) followed for one request.
MaxDepth == 2

\* ------------------------------------------------------------- values
\* An optional value is the set of what it holds: undefined is the empty set.
Undefined == {}
Some(x) == {x}
Get(opt) == CHOOSE x \in opt : TRUE
NoExc == [code |-> "none", statusCode |-> 0, origin |-> "none"]
\* The err option of a render: absent (a page), null, or the error attached.
ErrAbsent == [code |-> "none", statusCode |-> 0, origin |-> "absent"]
ErrNull == [code |-> "none", statusCode |-> 0, origin |-> "null"]

CLIENT_STATIC_FILES_PATH == "static"
CLIENT_STATIC_FILES_RUNTIME == "runtime"
BuildIdOnDisk == "B1"
ProjectDir == <<"app">>
ConfigDistDir == <<".next">>

NoStore == "no-cache, no-store, max-age=0, must-revalidate"
Immutable == "public, max-age=31536000, immutable"
NoHeader == "unset"

Task == {"main", "detached"}
Methods == {"GET", "HEAD", "POST"}

SeqUpTo(S, n) == UNION {[1..k -> S] : k \in 0..n}
Last(s) == s[Len(s)]

\* A pathname is its segments, the number of ".json" suffixes its last segment
\* ends in, and whether it holds an invalid percent-escape.  The request paths are
\* a namespace prefix and a wildcard capture; the suffixed ones have a capture of
\* one segment at most.
Prefixes == {<<>>, <<"_next">>, <<"_next", "static">>, <<"static">>}
TailSegment == {"..", "a", "chunks", CLIENT_STATIC_FILES_RUNTIME, BuildIdOnDisk, "_error"}
Tails == SeqUpTo(TailSegment, MaxTail)
WellFormed ==
  {[segs |-> pre \o tl, json |-> 0, bad |-> FALSE] : pre \in Prefixes, tl \in Tails}
  \cup
  {p \in [segs : {pre \o tl : pre \in Prefixes, tl \in SeqUpTo(TailSegment, 1)},
          json : 1..MaxJson, bad : {FALSE}] :
     /\ p.segs # <<>>
     /\ Last(p.segs) # ".." }
\* An invalid escape sequence in the wildcard's first segment.
Malformed ==
  {[segs |-> pre \o <<x>>, json |-> 0, bad |-> TRUE] :
     pre \in Prefixes, x \in TailSegment \ {".."}}
Pathnames == WellFormed \cup Malformed

Path(segs) == [segs |-> segs, json |-> 0, bad |-> FALSE]

\* URLs and pre-parsed URLs a custom server hands in.
RepUrls == {Path(<<"a">>), Path(<<"_next", "a">>)}
CustomPathnames ==
  {Undefined, Some(Path(<<"a">>)), Some(Path(<<"_next", "a">>)),
   Some(Path(<<"static", "a">>))}
ParsedUrls == {Undefined} \cup {Some([pathname |-> p]) : p \in CustomPathnames}
\* Pathnames given to the public render entry point.
RenderPathnames ==
  {p \in Pathnames : Len(p.segs) <= 1 /\ ~p.bad}

\* url.parse(req.url, true): the pathname of the request line.
parseUrl(url) == [pathname |-> Some(url)]

\* ------------------------------------------------------------- paths
\* The i-th segment of a pathname as written: the last one carries the suffixes.
SegmentAt(p, i) == <<p.segs[i], IF i = Len(p.segs) THEN p.json ELSE 0>>
Plain(name) == <<name, 0>>

RECURSIVE Normalize(_)
\* path.join / path.resolve of an absolute path: ".." removes the segment before it.
Normalize(segs) ==
  IF segs = <<>> THEN <<>>
  ELSE LET before == Normalize(SubSeq(segs, 1, Len(segs) - 1))
           s == Last(segs)
       IN IF s = ".."
          THEN IF before = <<>> THEN <<>> ELSE SubSeq(before, 1, Len(before) - 1)
          ELSE Append(before, s)

join(a, b) == Normalize(a \o b)
resolve(p) == Normalize(p)

\* resolved.indexOf(root + sep) === 0
StartsWithDir(resolved, root) ==
  /\ Len(resolved) > Len(root)
  /\ SubSeq(resolved, 1, Len(root)) = root

\* ------------------------------------------------------------- collaborators
\* utils.isInternalUrl: the URL lies in the framework's internal namespace /_next/.
isInternalUrl(url) ==
  /\ Len(url.segs) >= 2
  /\ SegmentAt(url, 1) = Plain("_next")

\* utils.isBlockedPage: the pathname starts with a reserved page name.
BlockedPages == {"_error", "_document", "_app"}
isBlockedPage(pathname) ==
  /\ Len(pathname.segs) >= 1
  /\ \E b \in BlockedPages : SegmentAt(pathname, 1) = Plain(b)

\* router.route(pattern): the literal segments before the trailing wildcard :path*.
Literals(pattern) ==
  CASE pattern = "/_next/static/:path*" -> <<"_next", "static">>
    [] pattern = "/_next/:path*" -> <<"_next">>
    [] pattern = "/static/:path*" -> <<"static">>
    [] pattern = "/:path*" -> <<>>

\* Matcher.match: the literals match segment by segment, the wildcard takes the rest.
Matches(pattern, pathname) ==
  LET lit == Literals(pattern)
  IN /\ Len(pathname.segs) >= Len(lit)
     /\ \A i \in 1..Len(lit) : SegmentAt(pathname, i) = Plain(lit[i])

Params(pattern, pathname) ==
  LET n == Len(Literals(pattern))
      rest == SubSeq(pathname.segs, n + 1, Len(pathname.segs))
  IN [path |-> [segs |-> rest,
                json |-> IF rest = <<>> THEN 0 ELSE pathname.json,
                bad |-> FALSE]]

NoParams == [path |-> [segs |-> <<>>, json |-> 0, bad |-> FALSE]]

RECURSIVE FirstMatch(_, _, _)
FirstMatch(routes, pathname, i) ==
  IF i > Len(routes) THEN 0
  ELSE IF Matches(routes[i], pathname) THEN i
  ELSE FirstMatch(routes, pathname, i + 1)

\* Router.match: the entries in insertion order, first match wins; a pathname that
\* does not decode raises DECODE_FAILED; no pathname, no match.
RouterMatch(routes, parsedUrl) ==
  IF parsedUrl.pathname = Undefined
  THEN [kind |-> "none", route |-> "none", params |-> NoParams]
  ELSE IF Get(parsedUrl.pathname).bad
  THEN [kind |-> "throw", route |-> "none", params |-> NoParams]
  ELSE LET i == FirstMatch(routes, Get(parsedUrl.pathname), 1)
       IN IF i = 0
          THEN [kind |-> "none", route |-> "none", params |-> NoParams]
          ELSE [kind |-> "match", route |-> routes[i],
                params |-> Params(routes[i], Get(parsedUrl.pathname))]

DecodeFailed == [code |-> "DECODE_FAILED", statusCode |-> 0, origin |-> "router"]
PathnameUndefined == [code |-> "none", statusCode |-> 0, origin |-> "pathname is undefined"]

\* What the collaborators fail with.
LoadErrors ==
  {[code |-> "ENOENT", statusCode |-> 0, origin |-> "loadComponents"],
   [code |-> "none", statusCode |-> 0, origin |-> "loadComponents"]}
RenderErrors ==
  {[code |-> "ENOENT", statusCode |-> 0, origin |-> "renderToHTML"],
   [code |-> "none", statusCode |-> 0, origin |-> "renderToHTML"]}
SendErrors == {[code |-> "none", statusCode |-> 0, origin |-> "sendHTML"]}
StaticErrors ==
  {[code |-> "ENOENT", statusCode |-> 0, origin |-> "serveStatic"],
   [code |-> "none", statusCode |-> 404, origin |-> "serveStatic"],
   [code |-> "none", statusCode |-> 500, origin |-> "serveStatic"]}

ErrorPage == Path(<<"_error">>)

\* ------------------------------------------------------------- server
\* prefix.replace(/\/$/, ''): a prefix is its characters.
AssetPrefixes == {<<>>, <<"c">>, <<"c", "/">>, <<"/">>}
StripTrailingSlash(prefix) ==
  IF prefix # <<>> /\ Last(prefix) = "/"
  THEN SubSeq(prefix, 1, Len(prefix) - 1)
  ELSE prefix

\* A table that registers the catch-all before the reserved namespaces.
generateRoutes_CatchAllFirst(useFileSystemPublicRoutes) ==
  (IF useFileSystemPublicRoutes THEN <<"/:path*">> ELSE <<>>)
  \o <<"/_next/static/:path*", "/_next/:path*", "/static/:path*">>

\* A table that pushes /static/:path* after the catch-all.
generateRoutes_StaticLast(useFileSystemPublicRoutes) ==
  <<"/_next/static/:path*", "/_next/:path*">>
  \o (IF useFileSystemPublicRoutes THEN <<"/:path*">> ELSE <<>>)
  \o <<"/static/:path*">>

\* A table that never registers the catch-all.
generateRoutes_NoCatchAll(useFileSystemPublicRoutes) ==
  <<"/_next/static/:path*", "/_next/:path*", "/static/:path*">>

generateRoutes(useFileSystemPublicRoutes) ==
  <<"/_next/static/:path*", "/_next/:path*", "/static/:path*">>
  \o (IF useFileSystemPublicRoutes THEN <<"/:path*">> ELSE <<>>)

isServeableUrl(distDir, dir, path) ==
  LET resolved == resolve(path)
  IN ~ ( /\ ~StartsWithDir(resolved, join(distDir, <<>>))
         /\ ~StartsWithDir(resolved, join(dir, <<"static">>)) )

VARIABLES
  server,   \* dir, distDir, buildId, nextConfig, the route table, renderOpts
  req,      \* the request in flight and the entry point it came through
  pc,       \* where each task of the request stands
  call,     \* the arguments of the dispatch the main task is in
  frame,    \* per task: the render it is in, its result, the error in flight
  res,      \* the response: statusCode, Cache-Control, what completed it
  log       \* what the request has asked of the collaborators

vars == <<server, req, pc, call, frame, res, log>>

NoReq == [entry |-> "none", method |-> "GET", url |-> Path(<<>>),
          parsedUrl |-> Undefined, pathname |-> Path(<<>>)]
NoCall == [parsedUrl |-> Undefined, depth |-> 0, phase |-> "none",
           route |-> "none", params |-> NoParams, path |-> <<>>,
           pathname |-> Path(<<>>)]
NoFrame == [mode |-> "none", pathname |-> Path(<<>>), dataOnly |-> "undefined",
            err |-> ErrAbsent, html |-> "undefined", exc |-> NoExc]
NoRes == [statusCode |-> 200, cacheControl |-> NoHeader, ended |-> <<>>]
\* dispatches: calls of handleRequest; handlers: the routes whose handler ran;
\* loads, renders: the collaborator calls and their arguments; sends: calls of
\* sendHTML; transfers: the paths handed to the static-file collaborator;
\* logged: logError calls; caught: what handleRequest's catch received;
\* failures: what was thrown, and in which page's pipeline; n404: calls of
\* render404; errorPages: the err of every renderErrorToHTML call;
\* decodes: DECODE_FAILED raised by the router; calls: the pathname of every
\* call of render.
NoLog == [dispatches |-> 0, handlers |-> <<>>, calls |-> <<>>,
          loads |-> <<>>, renders |-> <<>>,
          sends |-> 0, transfers |-> <<>>, logged |-> <<>>, caught |-> <<>>,
          failures |-> <<>>, n404 |-> 0, errorPages |-> <<>>, decodes |-> 0]
Failure(t, e) == [err |-> e, page |-> frame[t].pathname, task |-> t]

\* The constructor.
Init ==
  /\ \E fs \in BOOLEAN :
       server = [dir |-> resolve(ProjectDir),
                 distDir |-> join(resolve(ProjectDir), ConfigDistDir),
                 buildId |-> BuildIdOnDisk,
                 nextConfig |-> [useFileSystemPublicRoutes |-> fs],
                 routes |-> generateRoutes(fs),
                 renderOpts |-> [staticMarkup |-> FALSE,
                                 buildId |-> BuildIdOnDisk,
                                 generateEtags |-> TRUE,
                                 assetPrefix |-> <<>>]]
  /\ req = NoReq
  /\ pc = [t \in Task |-> IF t = "main" THEN "idle" ELSE "none"]
  /\ call = NoCall
  /\ frame = [t \in Task |-> NoFrame]
  /\ res = NoRes
  /\ log = NoLog

\* ------------------------------------------------------------- control
\* Where an error thrown by task t lands: the floating render404 has no one
\* awaiting it; renderToHTML's try covers the page's load and render; run's try
\* covers the match and the handler; handleRequest's catch is the last one, and
\* a render called from outside handleRequest rejects to its caller.
ThrowTarget(t, mode, c) ==
  IF t = "detached" THEN "unhandled"
  ELSE IF mode = "page" THEN "renderToHTMLCatch"
  ELSE IF c.depth = 0 THEN "rejected"
  ELSE IF c.phase = "try" THEN "runCatch"
  ELSE "handleCatch"

\* Where task t goes when its chain of calls returns.
ReturnTarget(t) == IF t = "detached" THEN "done" ELSE "return"

Finished ==
  /\ pc["main"] \in {"resolved", "rejected"}
  /\ pc["detached"] \in {"none", "done", "unhandled"}

\* ------------------------------------------------------------- entry points
\* getRequestHandler(): the handler of the HTTP server, or of a custom server that
\* passes the URL it parsed itself.
ReceiveRequest ==
  /\ pc["main"] = "idle"
  /\ \E method \in Methods :
       \E r \in {[url |-> u, parsedUrl |-> Undefined] : u \in Pathnames}
                \cup {[url |-> u, parsedUrl |-> pu] :
                        u \in RepUrls, pu \in ParsedUrls \ {Undefined}} :
         /\ req' = [entry |-> "handleRequest", method |-> method, url |-> r.url,
                    parsedUrl |-> r.parsedUrl, pathname |-> Path(<<>>)]
         /\ call' = [NoCall EXCEPT !.parsedUrl = r.parsedUrl]
  /\ pc' = [pc EXCEPT !["main"] = "handleRequest"]
  /\ frame' = [t \in Task |-> NoFrame]
  /\ res' = NoRes
  /\ log' = NoLog
  /\ UNCHANGED server

\* A custom server calls the public render(req, res, pathname, query, parsedUrl).
CallRender ==
  /\ pc["main"] = "idle"
  /\ \E method \in Methods, u \in RepUrls, p \in RenderPathnames, pu \in ParsedUrls :
       /\ req' = [entry |-> "render", method |-> method, url |-> u,
                  parsedUrl |-> pu, pathname |-> p]
       /\ call' = [NoCall EXCEPT !.parsedUrl = pu, !.pathname = p]
  /\ pc' = [pc EXCEPT !["main"] = "render"]
  /\ frame' = [t \in Task |-> NoFrame]
  /\ res' = NoRes
  /\ log' = NoLog
  /\ UNCHANGED server

\* A setter that replaces renderOpts by an object holding the prefix alone.
setAssetPrefix_ReplacesRenderOpts ==
  /\ pc["main"] = "idle"
  /\ \E prefix \in {Undefined} \cup {Some(x) : x \in AssetPrefixes} :
       server' = [server EXCEPT !.renderOpts =
                    [staticMarkup |-> FALSE,
                     buildId |-> "",
                     generateEtags |-> FALSE,
                     assetPrefix |-> IF prefix # Undefined /\ Get(prefix) # <<>>
                                     THEN StripTrailingSlash(Get(prefix))
                                     ELSE <<>>]]
  /\ UNCHANGED <<req, pc, call, frame, res, log>>

setAssetPrefix ==
  /\ pc["main"] = "idle"
  /\ \E prefix \in {Undefined} \cup {Some(x) : x \in AssetPrefixes} :
       server' = [server EXCEPT !.renderOpts.assetPrefix =
                    IF prefix # Undefined /\ Get(prefix) # <<>>
                    THEN StripTrailingSlash(Get(prefix))
                    ELSE <<>>]
  /\ UNCHANGED <<req, pc, call, frame, res, log>>

\* The response object is dropped once every task of the request has ended.
NextRequest ==
  /\ Finished
  /\ req' = NoReq
  /\ pc' = [t \in Task |-> IF t = "main" THEN "idle" ELSE "none"]
  /\ call' = NoCall
  /\ frame' = [t \in Task |-> NoFrame]
  /\ res' = NoRes
  /\ log' = NoLog
  /\ UNCHANGED server

\* ------------------------------------------------------------- dispatch
handleRequest ==
  /\ pc["main"] = "handleRequest"
  /\ call.depth < MaxDepth
  /\ call' = [call EXCEPT
                !.parsedUrl = IF call.parsedUrl = Undefined
                              THEN Some(parseUrl(req.url)) ELSE @,
                !.depth = @ + 1,
                !.phase = "try"]
  /\ res' = [res EXCEPT !.statusCode = 200]
  /\ log' = [log EXCEPT !.dispatches = @ + 1]
  /\ pc' = [pc EXCEPT !["main"] = "run"]
  /\ UNCHANGED <<server, req, frame>>

\* A catch that logs and throws the error on.
handleRequestCatch_Rethrows ==
  /\ pc["main"] = "handleCatch"
  /\ log' = [log EXCEPT !.logged = Append(@, frame["main"].exc)]
  /\ pc' = [pc EXCEPT !["main"] = "rejected"]
  /\ UNCHANGED <<server, req, call, frame, res>>

\* handleRequest's catch: log, 500, the literal body.
handleRequestCatch ==
  /\ pc["main"] = "handleCatch"
  /\ log' = [log EXCEPT !.logged = Append(@, frame["main"].exc),
                        !.caught = Append(@, frame["main"].exc)]
  /\ res' = [res EXCEPT !.statusCode = 500,
                        !.ended = Append(@, "Internal Server Error")]
  /\ frame' = [frame EXCEPT !["main"].exc = NoExc]
  /\ pc' = [pc EXCEPT !["main"] = "return"]
  /\ UNCHANGED <<server, req, call>>

\* The promise the entry point returned settles: every caller up the chain awaits
\* or returns the call below it.
Return ==
  /\ pc["main"] = "return"
  /\ pc' = [pc EXCEPT !["main"] = "resolved"]
  /\ UNCHANGED <<server, req, call, frame, res, log>>

\* run, the try: router.match.
runMatch ==
  /\ pc["main"] = "run"
  /\ LET m == RouterMatch(server.routes, Get(call.parsedUrl))
     IN CASE m.kind = "throw" ->
               /\ pc' = [pc EXCEPT !["main"] =
                           ThrowTarget("main", frame["main"].mode, call)]
               /\ frame' = [frame EXCEPT !["main"].exc = DecodeFailed]
               /\ log' = [log EXCEPT !.decodes = @ + 1]
               /\ UNCHANGED call
          [] m.kind = "match" ->
               /\ pc' = [pc EXCEPT !["main"] = "fn"]
               /\ call' = [call EXCEPT !.route = m.route, !.params = m.params]
               /\ log' = [log EXCEPT !.handlers = Append(@, m.route)]
               /\ UNCHANGED frame
          [] m.kind = "none" ->
               /\ pc' = [pc EXCEPT !["main"] = "fallback"]
               /\ call' = [call EXCEPT !.phase = "after"]
               /\ UNCHANGED <<frame, log>>
  /\ UNCHANGED <<server, req, res>>

\* A catch that treats the decode failure as an unmatched route.
runCatch_RendersNotFound ==
  /\ pc["main"] = "runCatch"
  /\ IF frame["main"].exc.code = "DECODE_FAILED"
     THEN /\ frame' = [frame EXCEPT !["main"] = NoFrame]
          /\ call' = [call EXCEPT !.phase = "catch"]
          /\ pc' = [pc EXCEPT !["main"] = "render404"]
     ELSE /\ pc' = [pc EXCEPT !["main"] = "handleCatch"]
          /\ call' = [call EXCEPT !.phase = "catch"]
          /\ UNCHANGED frame
  /\ UNCHANGED <<server, req, res, log>>

\* run, the catch.
runCatch ==
  /\ pc["main"] = "runCatch"
  /\ IF frame["main"].exc.code = "DECODE_FAILED"
     THEN /\ res' = [res EXCEPT !.statusCode = 400]
          /\ frame' = [frame EXCEPT !["main"] = [NoFrame EXCEPT !.err = ErrNull]]
          /\ call' = [call EXCEPT !.phase = "catch"]
          /\ pc' = [pc EXCEPT !["main"] = "renderError"]
     ELSE /\ pc' = [pc EXCEPT !["main"] = "handleCatch"]
          /\ call' = [call EXCEPT !.phase = "catch"]
          /\ UNCHANGED <<res, frame>>
  /\ UNCHANGED <<server, req, log>>

\* A fallback that forgets HEAD.
runFallback_GetOnly ==
  /\ pc["main"] = "fallback"
  /\ IF req.method = "GET"
     THEN /\ pc' = [pc EXCEPT !["main"] = "render404"]
          /\ UNCHANGED res
     ELSE /\ res' = [res EXCEPT !.statusCode = 501,
                                !.ended = Append(@, "Not Implemented")]
          /\ pc' = [pc EXCEPT !["main"] = "return"]
  /\ UNCHANGED <<server, req, call, frame, log>>

\* run, after the try: no route matched.
runFallback ==
  /\ pc["main"] = "fallback"
  /\ IF req.method = "GET" \/ req.method = "HEAD"
     THEN /\ pc' = [pc EXCEPT !["main"] = "render404"]
          /\ UNCHANGED res
     ELSE /\ res' = [res EXCEPT !.statusCode = 501,
                                !.ended = Append(@, "Not Implemented")]
          /\ pc' = [pc EXCEPT !["main"] = "return"]
  /\ UNCHANGED <<server, req, call, frame, log>>

\* ------------------------------------------------------------- route handlers
\* A test that forgets the chunks folder.
IsVersionedFolder_NoChunks(path, buildId) ==
  /\ path.segs # <<>>
  /\ \/ SegmentAt(path, 1) = Plain(CLIENT_STATIC_FILES_RUNTIME)
     \/ SegmentAt(path, 1) = Plain(buildId)

\* params.path[0] names one of the build's versioned folders.
IsVersionedFolder(path, buildId) ==
  /\ path.segs # <<>>
  /\ \/ SegmentAt(path, 1) = Plain(CLIENT_STATIC_FILES_RUNTIME)
     \/ SegmentAt(path, 1) = Plain("chunks")
     \/ SegmentAt(path, 1) = Plain(buildId)

\* /_next/static/:path*
fnNextStatic ==
  /\ pc["main"] = "fn"
  /\ call.route = "/_next/static/:path*"
  /\ res' = IF IsVersionedFolder(call.params.path, server.buildId)
            THEN [res EXCEPT !.cacheControl = Immutable]
            ELSE res
  /\ call' = [call EXCEPT !.path = join(server.distDir,
                                        <<CLIENT_STATIC_FILES_PATH>> \o call.params.path.segs)]
  /\ pc' = [pc EXCEPT !["main"] = "serveStatic"]
  /\ UNCHANGED <<server, req, frame, log>>

\* /_next/:path*
fnNext ==
  /\ pc["main"] = "fn"
  /\ call.route = "/_next/:path*"
  /\ pc' = [pc EXCEPT !["main"] = "render404"]
  /\ UNCHANGED <<server, req, call, frame, res, log>>

\* /static/:path*
fnStatic ==
  /\ pc["main"] = "fn"
  /\ call.route = "/static/:path*"
  /\ call' = [call EXCEPT !.path = join(server.dir, <<"static">> \o call.params.path.segs)]
  /\ pc' = [pc EXCEPT !["main"] = "serveStatic"]
  /\ UNCHANGED <<server, req, frame, res, log>>

\* /:path*
fnCatchAll ==
  /\ pc["main"] = "fn"
  /\ call.route = "/:path*"
  /\ IF Get(call.parsedUrl).pathname = Undefined
     THEN /\ pc' = [pc EXCEPT !["main"] =
                      ThrowTarget("main", frame["main"].mode, call)]
          /\ frame' = [frame EXCEPT !["main"].exc = PathnameUndefined]
          /\ log' = [log EXCEPT !.failures = Append(@, Failure("main", PathnameUndefined))]
          /\ UNCHANGED call
     ELSE /\ pc' = [pc EXCEPT !["main"] = "render"]
          /\ call' = [call EXCEPT !.pathname = Get(Get(call.parsedUrl).pathname)]
          /\ UNCHANGED <<frame, log>>
  /\ UNCHANGED <<server, req, res>>

\* ------------------------------------------------------------- render
\* ENDING_IN_JSON_REGEX.test(pathname) and pathname.replace(ENDING_IN_JSON_REGEX, '')
EndsInJson(pathname) == pathname.json > 0
StripJson(pathname) == [pathname EXCEPT !.json = @ - 1]

\* A render that flags the data request and looks up the pathname as given.
RenderTarget_KeepsSuffix(pathname) ==
  [pathname |-> pathname,
   dataOnly |-> IF EndsInJson(pathname) THEN "true" ELSE "false"]

\* The pathname render looks up, and whether the request is a data request.
RenderTarget(pathname) ==
  IF EndsInJson(pathname)
  THEN [pathname |-> StripJson(pathname), dataOnly |-> "true"]
  ELSE [pathname |-> pathname, dataOnly |-> "false"]

\* A render that tests for a blocked page before it strips the suffix.
render_BlocksBeforeStrip ==
  /\ pc["main"] = "render"
  /\ IF isInternalUrl(req.url)
     THEN /\ pc' = [pc EXCEPT !["main"] = "handleRequest"]
          /\ UNCHANGED frame
     ELSE LET target == RenderTarget(call.pathname)
          IN IF isBlockedPage(call.pathname)
             THEN /\ pc' = [pc EXCEPT !["main"] = "render404"]
                  /\ UNCHANGED frame
             ELSE /\ pc' = [pc EXCEPT !["main"] = "loadComponents"]
                  /\ frame' = [frame EXCEPT !["main"] =
                                 [NoFrame EXCEPT !.mode = "page",
                                                 !.pathname = target.pathname,
                                                 !.dataOnly = target.dataOnly]]
  /\ log' = [log EXCEPT !.calls = Append(@, call.pathname)]
  /\ UNCHANGED <<server, req, call, res>>

\* render, up to the call of renderToHTML, which starts the load of the page.
render ==
  /\ pc["main"] = "render"
  /\ IF isInternalUrl(req.url)
     THEN /\ pc' = [pc EXCEPT !["main"] = "handleRequest"]
          /\ UNCHANGED frame
     ELSE LET target == RenderTarget(call.pathname)
          IN IF isBlockedPage(target.pathname)
             THEN /\ pc' = [pc EXCEPT !["main"] = "render404"]
                  /\ UNCHANGED frame
             ELSE /\ pc' = [pc EXCEPT !["main"] = "loadComponents"]
                  /\ frame' = [frame EXCEPT !["main"] =
                                 [NoFrame EXCEPT !.mode = "page",
                                                 !.pathname = target.pathname,
                                                 !.dataOnly = target.dataOnly]]
  /\ log' = [log EXCEPT !.calls = Append(@, call.pathname)]
  /\ UNCHANGED <<server, req, call, res>>

\* renderToHTMLWithComponents: loadComponents(distDir, buildId, pathname, opts)
loadComponents(t) ==
  /\ pc[t] = "loadComponents"
  /\ \/ /\ pc' = [pc EXCEPT ![t] = "renderToHTML"]
        /\ log' = [log EXCEPT !.loads = Append(@, frame[t].pathname)]
        /\ UNCHANGED frame
     \/ \E e \in LoadErrors :
          /\ pc' = [pc EXCEPT ![t] = ThrowTarget(t, frame[t].mode, call)]
          /\ log' = [log EXCEPT !.loads = Append(@, frame[t].pathname),
                                !.failures = Append(@, Failure(t, e))]
          /\ frame' = [frame EXCEPT ![t].exc = e]
  /\ UNCHANGED <<server, req, call, res>>

\* renderToHTMLWithComponents: the render function, which returns the HTML, ends
\* the response itself and returns null, or throws.
renderPage(t) ==
  /\ pc[t] = "renderToHTML"
  /\ LET invoked == [log EXCEPT !.renders =
                        Append(@, [pathname |-> frame[t].pathname,
                                   dataOnly |-> frame[t].dataOnly,
                                   err |-> frame[t].err])]
     IN \/ /\ pc' = [pc EXCEPT ![t] = "gotHtml"]
           /\ frame' = [frame EXCEPT ![t].html = "html"]
           /\ log' = invoked
           /\ UNCHANGED res
        \/ /\ pc' = [pc EXCEPT ![t] = "gotHtml"]
           /\ frame' = [frame EXCEPT ![t].html = "null"]
           /\ log' = invoked
           /\ res' = [res EXCEPT !.ended = Append(@, "render")]
        \/ \E e \in RenderErrors :
             /\ pc' = [pc EXCEPT ![t] = ThrowTarget(t, frame[t].mode, call)]
             /\ frame' = [frame EXCEPT ![t].exc = e]
             /\ log' = [invoked EXCEPT !.failures = Append(@, Failure(t, e))]
             /\ UNCHANGED res
  /\ UNCHANGED <<server, req, call>>

\* A catch that renders the error page of a failed page without the error.
renderToHTMLCatch_DropsError ==
  /\ pc["main"] = "renderToHTMLCatch"
  /\ LET err == frame["main"].exc
     IN /\ res' = [res EXCEPT !.statusCode = IF err.code = "ENOENT" THEN 404 ELSE 500]
        /\ frame' = [frame EXCEPT !["main"] =
                       [NoFrame EXCEPT !.mode = "pageError",
                                       !.pathname = ErrorPage,
                                       !.err = ErrNull]]
        /\ log' = IF err.code = "ENOENT"
                  THEN [log EXCEPT !.errorPages = Append(@, ErrNull)]
                  ELSE [log EXCEPT !.logged = Append(@, err),
                                   !.errorPages = Append(@, ErrNull)]
  /\ pc' = [pc EXCEPT !["main"] = "loadComponents"]
  /\ UNCHANGED <<server, req, call>>

\* renderToHTML's catch: the page could not be loaded or rendered.
renderToHTMLCatch ==
  /\ pc["main"] = "renderToHTMLCatch"
  /\ LET err == frame["main"].exc
     IN IF err.code = "ENOENT"
        THEN /\ res' = [res EXCEPT !.statusCode = 404]
             /\ frame' = [frame EXCEPT !["main"] =
                            [NoFrame EXCEPT !.mode = "pageError",
                                            !.pathname = ErrorPage,
                                            !.err = ErrNull]]
             /\ log' = [log EXCEPT !.errorPages = Append(@, ErrNull)]
        ELSE /\ res' = [res EXCEPT !.statusCode = 500]
             /\ frame' = [frame EXCEPT !["main"] =
                            [NoFrame EXCEPT !.mode = "pageError",
                                            !.pathname = ErrorPage,
                                            !.err = err]]
             /\ log' = [log EXCEPT !.logged = Append(@, err),
                                   !.errorPages = Append(@, err)]
  /\ pc' = [pc EXCEPT !["main"] = "loadComponents"]
  /\ UNCHANGED <<server, req, call>>

\* A check that sends whatever the pipeline returned.
ShouldSend_Always(html) == TRUE

\* html === null: the request was ended by the render function.
ShouldSend(html) == html # "null"

\* render and renderError, after the HTML is there.
gotHtml(t) ==
  /\ pc[t] = "gotHtml"
  /\ pc' = [pc EXCEPT ![t] = IF ShouldSend(frame[t].html)
                             THEN "sendHTML" ELSE ReturnTarget(t)]
  /\ UNCHANGED <<server, req, call, frame, res, log>>

\* sendHTML(req, res, html, {generateEtags})
sendHTML(t) ==
  /\ pc[t] = "sendHTML"
  /\ \/ /\ res' = [res EXCEPT !.ended = Append(@, "html")]
        /\ pc' = [pc EXCEPT ![t] = ReturnTarget(t)]
        /\ log' = [log EXCEPT !.sends = @ + 1]
        /\ UNCHANGED frame
     \/ \E e \in SendErrors :
          /\ pc' = [pc EXCEPT ![t] = ThrowTarget(t, "sent", call)]
          /\ frame' = [frame EXCEPT ![t].exc = e]
          /\ log' = [log EXCEPT !.sends = @ + 1,
                                !.failures = Append(@, Failure(t, e))]
          /\ UNCHANGED res
  /\ UNCHANGED <<server, req, call>>

\* ------------------------------------------------------------- 404 and errors
\* parsedUrl ? parsedUrl : parseUrl(url)
UrlFor404(parsedUrl, url) ==
  IF parsedUrl # Undefined THEN Get(parsedUrl) ELSE parseUrl(url)

\* The frame of renderErrorToHTML: the '/_error' page with the error attached.
ErrorFrame(err) ==
  [NoFrame EXCEPT !.mode = "error", !.pathname = ErrorPage, !.err = err]

render404 ==
  /\ pc["main"] = "render404"
  /\ IF UrlFor404(call.parsedUrl, req.url).pathname = Undefined
     THEN /\ pc' = [pc EXCEPT !["main"] = ThrowTarget("main", "none", call)]
          /\ frame' = [frame EXCEPT !["main"].exc = PathnameUndefined]
          /\ log' = [log EXCEPT !.n404 = @ + 1,
                                !.failures = Append(@, Failure("main", PathnameUndefined))]
          /\ UNCHANGED res
     ELSE /\ res' = [res EXCEPT !.statusCode = 404]
          /\ log' = [log EXCEPT !.n404 = @ + 1]
          /\ frame' = [frame EXCEPT !["main"] = [NoFrame EXCEPT !.err = ErrNull]]
          /\ pc' = [pc EXCEPT !["main"] = "renderError"]
  /\ UNCHANGED <<server, req, call>>

\* renderError, up to the call of renderErrorToHTML, which starts the load of '/_error'.
renderError ==
  /\ pc["main"] = "renderError"
  /\ res' = [res EXCEPT !.cacheControl = NoStore]
  /\ log' = [log EXCEPT !.errorPages = Append(@, frame["main"].err)]
  /\ frame' = [frame EXCEPT !["main"] = ErrorFrame(frame["main"].err)]
  /\ pc' = [pc EXCEPT !["main"] = "loadComponents"]
  /\ UNCHANGED <<server, req, call>>

\* ------------------------------------------------------------- static files
serveStatic ==
  /\ pc["main"] = "serveStatic"
  /\ IF ~isServeableUrl(server.distDir, server.dir, call.path)
     THEN /\ pc' = [pc EXCEPT !["main"] = "render404"]
          /\ UNCHANGED log
     ELSE /\ pc' = [pc EXCEPT !["main"] = "transfer"]
          /\ log' = [log EXCEPT !.transfers = Append(@, call.path)]
  /\ UNCHANGED <<server, req, call, frame, res>>

\* A test that looks at the error code alone.
IsNotFound_CodeOnly(err) == err.code = "ENOENT"

\* err.code === 'ENOENT' || err.statusCode === 404
IsNotFound(err) == err.code = "ENOENT" \/ err.statusCode = 404

\* A catch without the else: the not-found error starts render404 and is thrown
\* on as well.
serveStaticTransfer_NoElse ==
  /\ pc["main"] = "transfer"
  /\ \/ /\ res' = [res EXCEPT !.ended = Append(@, "static")]
        /\ pc' = [pc EXCEPT !["main"] = "return"]
        /\ UNCHANGED <<frame, log>>
     \/ \E e \in StaticErrors :
          IF IsNotFound(e) /\ UrlFor404(call.parsedUrl, req.url).pathname # Undefined
          THEN /\ pc' = [pc EXCEPT !["main"] = ThrowTarget("main", "none", call),
                                   !["detached"] = "loadComponents"]
               /\ res' = [res EXCEPT !.statusCode = 404,
                                     !.cacheControl = NoStore]
               /\ log' = [log EXCEPT !.n404 = @ + 1,
                                     !.failures = Append(@, Failure("main", e)),
                                     !.errorPages = Append(@, ErrNull)]
               /\ frame' = [frame EXCEPT !["main"].exc = e,
                                         !["detached"] = ErrorFrame(ErrNull)]
          ELSE /\ pc' = [pc EXCEPT !["main"] = ThrowTarget("main", "none", call)]
               /\ frame' = [frame EXCEPT !["main"].exc = e]
               /\ log' = [log EXCEPT !.failures = Append(@, Failure("main", e))]
               /\ UNCHANGED res
  /\ UNCHANGED <<server, req, call>>

\* The static-file collaborator returns, or throws into serveStatic's catch.  The
\* catch calls render404 without awaiting it: render404 runs up to its first
\* await (status, header, the load of '/_error' started) and is left to itself,
\* while serveStatic returns.
serveStaticTransfer ==
  /\ pc["main"] = "transfer"
  /\ \/ /\ res' = [res EXCEPT !.ended = Append(@, "static")]
        /\ pc' = [pc EXCEPT !["main"] = "return"]
        /\ UNCHANGED <<frame, log>>
     \/ \E e \in StaticErrors :
          IF IsNotFound(e)
          THEN IF UrlFor404(call.parsedUrl, req.url).pathname = Undefined
               THEN /\ pc' = [pc EXCEPT !["main"] = "return",
                                        !["detached"] = "unhandled"]
                    /\ frame' = [frame EXCEPT !["detached"].exc = PathnameUndefined]
                    /\ log' = [log EXCEPT !.n404 = @ + 1,
                                          !.failures = Append(Append(@, Failure("main", e)),
                                                              Failure("detached", PathnameUndefined))]
                    /\ UNCHANGED res
               ELSE /\ pc' = [pc EXCEPT !["main"] = "return",
                                        !["detached"] = "loadComponents"]
                    /\ res' = [res EXCEPT !.statusCode = 404,
                                          !.cacheControl = NoStore]
                    /\ log' = [log EXCEPT !.n404 = @ + 1,
                                          !.failures = Append(@, Failure("main", e)),
                                          !.errorPages = Append(@, ErrNull)]
                    /\ frame' = [frame EXCEPT !["detached"] = ErrorFrame(ErrNull)]
          ELSE /\ pc' = [pc EXCEPT !["main"] = ThrowTarget("main", "none", call)]
               /\ frame' = [frame EXCEPT !["main"].exc = e]
               /\ log' = [log EXCEPT !.failures = Append(@, Failure("main", e))]
               /\ UNCHANGED res
  /\ UNCHANGED <<server, req, call>>

\* ------------------------------------------------------------- specification
Next ==
  \/ ReceiveRequest
  \/ CallRender
  \/ setAssetPrefix
  \/ NextRequest
  \/ handleRequest
  \/ handleRequestCatch
  \/ Return
  \/ runMatch
  \/ runCatch
  \/ runFallback
  \/ fnNextStatic
  \/ fnNext
  \/ fnStatic
  \/ fnCatchAll
  \/ render
  \/ \E t \in Task : loadComponents(t)
  \/ \E t \in Task : renderPage(t)
  \/ renderToHTMLCatch
  \/ \E t \in Task : gotHtml(t)
  \/ \E t \in Task : sendHTML(t)
  \/ render404
  \/ renderError
  \/ serveStatic
  \/ serveStaticTransfer

Spec == Init /\ [][Next]_vars

\* ------------------------------------------------------------- properties
Range(seq) == {seq[i] : i \in DOMAIN seq}
ISE == "Internal Server Error"

\* The request came through handleRequest and every task it started has ended.
Settled == req.entry = "handleRequest" /\ Finished

\* The pathname the router is given for this request.
Dispatched ==
  IF req.parsedUrl = Undefined THEN Some(req.url) ELSE Get(req.parsedUrl).pathname

\* Something was thrown while '/_error' was being loaded, rendered or sent.
ErrorPageFailed ==
  \E i \in DOMAIN log.failures :
    /\ log.failures[i].page = ErrorPage
    /\ log.failures[i].err.origin \in {"loadComponents", "renderToHTML", "sendHTML"}

\* C1: the promise of a handleRequest call never rejects; what run rejects with is
\* caught by handleRequest, which leaves status 500 and the body
\* 'Internal Server Error' as the last thing done to the response.
C1_HandleRequestNeverRejects ==
  /\ call.depth > 0 => pc["main"] # "rejected"
  /\ (log.caught # <<>> /\ pc["main"] \in {"return", "resolved"}) =>
       /\ res.statusCode = 500
       /\ res.ended # <<>>
       /\ Last(res.ended) = ISE
  /\ pc["main"] = "resolved" => frame["main"].exc = NoExc

C1_Witness ==
  /\ req.entry = "handleRequest"
  /\ pc["main"] = "resolved"
  /\ log.caught # <<>>
  /\ res.statusCode = 500

\* C2: when the promise of handleRequest has resolved, the response has been
\* completed.
C2_ResolvedMeansCompleted ==
  (req.entry = "handleRequest" /\ pc["main"] = "resolved") => res.ended # <<>>

\* C3: when the error page itself fails, the request ends with status 500 and the
\* body 'Internal Server Error'.
C3_ErrorPageFailureEndsIn500 ==
  (Settled /\ ErrorPageFailed) =>
    /\ res.statusCode = 500
    /\ res.ended # <<>>
    /\ Last(res.ended) = ISE

\* C4: every path handed to the static-file collaborator is a strict descendant
\* of distDir/static or of dir/static.
C4_TransfersStayUnderStaticRoots ==
  \A i \in DOMAIN log.transfers :
    \/ StartsWithDir(log.transfers[i],
                     join(server.distDir, <<CLIENT_STATIC_FILES_PATH>>))
    \/ StartsWithDir(log.transfers[i], join(server.dir, <<"static">>))

\* A pathname under /_next/ that the static namespace /_next/static does not take.
UnderNextNotStatic(p) ==
  /\ Len(p.segs) >= 2
  /\ SegmentAt(p, 1) = Plain("_next")
  /\ SegmentAt(p, 2) # Plain("static")

InReservedNamespace ==
  /\ req.entry = "handleRequest"
  /\ Dispatched # Undefined
  /\ UnderNextNotStatic(Get(Dispatched))

\* C5 as stated: a request under /_next/ (not /_next/static/) only ever runs the
\* reserved-namespace handler, loads no page but the error page, and ends 404.
C5_ReservedAlways404 ==
  InReservedNamespace =>
    /\ Range(log.handlers) \subseteq {"/_next/:path*"}
    /\ Range(log.loads) \subseteq {ErrorPage}
    /\ Finished => res.statusCode = 404

\* C5 as amended: the same, and the status is 404 when the path decodes and the
\* error page is loaded, rendered and sent; 400 when the path does not decode;
\* 500 when the error page fails.
C5_ReservedNeverReachesPages ==
  InReservedNamespace =>
    /\ Range(log.handlers) \subseteq {"/_next/:path*"}
    /\ Range(log.loads) \subseteq {ErrorPage}
    /\ pc["detached"] = "none"
    /\ Finished =>
         res.statusCode = IF log.failures # <<>> THEN 500
                          ELSE IF Get(Dispatched).bad THEN 400
                          ELSE 404

C5_Witness ==
  /\ InReservedNamespace
  /\ "/:path*" \in Range(server.routes)
  /\ Finished
  /\ log.handlers = <<"/_next/:path*">>
  /\ res.statusCode = 404
  /\ res.ended = <<"html">>

\* The route the table gives a pathname when read in the order
\* /_next/static/:path*, /_next/:path*, /static/:path*, /:path*.
RECURSIVE FirstOf(_, _, _)
FirstOf(order, registered, pathname) ==
  IF order = <<>> THEN "none"
  ELSE IF order[1] \in registered /\ Matches(order[1], pathname) THEN order[1]
  ELSE FirstOf(Tail(order), registered, pathname)

DocumentedOrder ==
  <<"/_next/static/:path*", "/_next/:path*", "/static/:path*", "/:path*">>

\* C6: every handler run for a request is the first entry, in the documented
\* order, that matches the dispatched pathname; a dispatch runs one handler at
\* most; a /static/ path goes to the static handler and never into render.
C6_FirstMatchWins ==
  (call.depth > 0 /\ Get(call.parsedUrl).pathname # Undefined) =>
    LET pathname == Get(Get(call.parsedUrl).pathname)
        first == FirstOf(DocumentedOrder, Range(server.routes), pathname)
    IN /\ \A i \in DOMAIN log.handlers : log.handlers[i] = first
       /\ Len(log.handlers) <= log.dispatches
       /\ Matches("/static/:path*", pathname) =>
            /\ Range(log.handlers) \subseteq {"/static/:path*"}
            /\ req.entry = "handleRequest" =>
                 /\ pc["main"] # "render"
                 /\ Range(log.loads) \subseteq {ErrorPage}

C6_Witness ==
  /\ req.entry = "handleRequest"
  /\ "/:path*" \in Range(server.routes)
  /\ log.handlers = <<"/static/:path*">>
  /\ pc["main"] = "resolved"
  /\ Matches("/static/:path*", Get(Get(call.parsedUrl).pathname))
  /\ Matches("/:path*", Get(Get(call.parsedUrl).pathname))

\* C7: a page whose build artifact is missing (the loader throws ENOENT) is
\* answered 404 with Cache-Control no-store.
C7_MissingPageIs404NoStore ==
  ( /\ pc["main"] = "resolved"
    /\ Len(log.failures) = 1
    /\ log.failures[1].err.origin = "loadComponents"
    /\ log.failures[1].err.code = "ENOENT"
    /\ log.failures[1].page # ErrorPage ) =>
      /\ res.statusCode = 404
      /\ res.cacheControl = NoStore

\* C8: when the router raises DECODE_FAILED, run sets 400 and renders the error
\* page with a null error; render404 and the 501 fallback do not run; with the
\* error page rendered the status stays 400.
C8_DecodeFailureIs400 ==
  log.decodes > 0 =>
    /\ log.n404 = 0
    /\ "Not Implemented" \notin Range(res.ended)
    /\ res.statusCode \notin {404, 501}
    /\ pc["main"] = "renderError" =>
         res.statusCode = 400 /\ frame["main"].err = ErrNull
    /\ pc["main"] \notin {"runCatch", "renderError"} =>
         log.errorPages = <<ErrNull>>
    /\ (pc["main"] # "runCatch" /\ log.failures = <<>>) => res.statusCode = 400

C8_Witness ==
  /\ log.decodes > 0
  /\ pc["main"] = "resolved"
  /\ res.statusCode = 400
  /\ res.ended = <<"html">>
  /\ log.errorPages = <<ErrNull>>

\* The page renders among the render calls: those with no err option.
PageRenders == {r \in Range(log.renders) : r.err = ErrAbsent}

\* C9 as stated: for every pathname p that is not blocked, render(p) looks up p
\* with dataOnly false, and render(p + '.json') looks up p with dataOnly true.
C9_EveryPathname ==
  frame["main"].mode = "page" =>
    LET q == call.pathname
    IN /\ ~isBlockedPage(q) =>
            /\ frame["main"].pathname = q
            /\ frame["main"].dataOnly = "false"
       /\ (q.json >= 1 /\ ~isBlockedPage([q EXCEPT !.json = @ - 1])) =>
            /\ frame["main"].pathname = [q EXCEPT !.json = @ - 1]
            /\ frame["main"].dataOnly = "true"

\* C9 as amended: the same for every p that is not blocked and does not itself
\* end in '.json' (q is p or p + '.json'), on a request whose URL is not internal.
C9_JsonSuffixIsDataRequest ==
  LET q == call.pathname
      p == [q EXCEPT !.json = 0]
      flag == IF q.json = 1 THEN "true" ELSE "false"
  IN (q.json <= 1 /\ ~isBlockedPage(p)) =>
       /\ frame["main"].mode = "page" =>
            /\ frame["main"].pathname = p
            /\ frame["main"].dataOnly = flag
       /\ Range(log.loads) \subseteq {p, ErrorPage}
       /\ PageRenders \subseteq {[pathname |-> p, dataOnly |-> flag, err |-> ErrAbsent]}

C9_Witness ==
  /\ call.pathname.json = 1
  /\ ~isInternalUrl(req.url)
  /\ [pathname |-> [call.pathname EXCEPT !.json = 0], dataOnly |-> "true",
      err |-> ErrAbsent] \in PageRenders
  /\ log.loads[1] = [call.pathname EXCEPT !.json = 0]
  /\ pc["main"] = "resolved"

\* C10: with no route matched, GET and HEAD go to render404; every other method
\* gets 501 and the body 'Not Implemented', and neither the page loader nor the
\* error page is asked for anything.
C10_NoMatchFallback ==
  (call.phase = "after" /\ pc["main"] # "fallback") =>
    IF req.method \in {"GET", "HEAD"}
    THEN /\ pc["main"] = "render404" \/ log.n404 = 1
         /\ "Not Implemented" \notin Range(res.ended)
         /\ res.statusCode # 501
    ELSE /\ res.statusCode = 501
         /\ res.ended = <<"Not Implemented">>
         /\ log.n404 = 0
         /\ log.loads = <<>>
         /\ log.renders = <<>>
         /\ log.errorPages = <<>>
         /\ pc["main"] \in {"return", "resolved"}

C10_Witness ==
  /\ call.phase = "after"
  /\ req.method = "POST"
  /\ pc["main"] = "resolved"
  /\ res.statusCode = 501
  /\ res.ended = <<"Not Implemented">>

\* C11: a response sent through the error page with status 400, 404 or 500
\* carries Cache-Control no-store, whichever path led to the error page.
C11_ErrorResponsesAreNoStore ==
  ( /\ log.errorPages # <<>>
    /\ "html" \in Range(res.ended)
    /\ res.statusCode \in {400, 404, 500} ) =>
      res.cacheControl = NoStore

\* C12: when the load or the render of a page fails, renderToHTML renders
\* '/_error': for ENOENT with status 404, a null error and nothing logged; for
\* any other error with status 500, that error attached and that error logged.
C12_PageFailureProtocol ==
  frame["main"].mode = "pageError" =>
    LET e == log.failures[1].err
        notFound == e.code = "ENOENT"
        attached == IF notFound THEN ErrNull ELSE e
    IN /\ log.failures[1].page # ErrorPage
       /\ e.origin \in {"loadComponents", "renderToHTML"}
       /\ frame["main"].pathname = ErrorPage
       /\ frame["main"].err = attached
       /\ log.errorPages = <<attached>>
       /\ \A r \in Range(log.renders) :
            r.err # ErrAbsent => r = [pathname |-> ErrorPage, dataOnly |-> "undefined",
                                     err |-> attached]
       /\ Len(log.failures) = 1 =>
            /\ res.statusCode = IF notFound THEN 404 ELSE 500
            /\ log.logged = IF notFound THEN <<>> ELSE <<e>>

C12_Witness ==
  /\ frame["main"].mode = "pageError"
  /\ pc["main"] = "resolved"
  /\ Len(log.failures) = 1
  /\ log.failures[1].err.code = "none"
  /\ log.logged = <<log.failures[1].err>>
  /\ res.statusCode = 500
  /\ res.ended = <<"html">>
  /\ Len(log.renders) = 2

\* C13: sendHTML is only called with the HTML a render returned; when the render
\* returned null (it ended the response itself), nothing is sent for it.
C13_NullHtmlIsNeverSent ==
  /\ \A t \in Task : pc[t] = "sendHTML" => frame[t].html = "html"
  /\ log.sends <= Cardinality({t \in Task : frame[t].html = "html"})
  /\ \A t \in Task :
       (frame[t].html = "null" /\ \A u \in Task \ {t} : frame[u].html # "html") =>
         /\ log.sends = 0
         /\ "html" \notin Range(res.ended)

C13_Witness ==
  /\ frame["main"].mode = "error"
  /\ frame["main"].html = "null"
  /\ pc["main"] = "resolved"
  /\ log.sends = 0
  /\ res.ended = <<"render">>

\* A pathname without its last '.json'.
Stripped(q) == IF q.json > 0 THEN [q EXCEPT !.json = @ - 1] ELSE q

\* What C14 says of a render call whose pathname, once stripped, is blocked: no
\* page is loaded or rendered, only the error page, and when the call has
\* returned the 404 protocol has run.
BlockedCallGets404 ==
  /\ pc["main"] \in {"return", "resolved", "rejected"} => log.n404 = 1
  /\ Range(log.loads) \subseteq {ErrorPage}
  /\ PageRenders = {}
  /\ frame["main"].mode # "page"
  /\ Range(log.errorPages) \subseteq {ErrNull}

VersionedAssetRequest ==
  /\ call.route = "/_next/static/:path*"
  /\ LET p == Get(Get(call.parsedUrl).pathname)
     IN /\ Len(p.segs) >= 3
        /\ SegmentAt(p, 3) \in {Plain(CLIENT_STATIC_FILES_RUNTIME), Plain("chunks"),
                                 Plain(server.buildId)}

\* C15: when the transfer of a static file is delegated, the immutable header is
\* set exactly for the versioned folders of /_next/static/; no response completed
\* with status 404 carries it.
C15_ImmutableOnlyForVersionedAssets ==
  /\ pc["main"] \in {"serveStatic", "transfer"} =>
       res.cacheControl = IF VersionedAssetRequest THEN Immutable ELSE NoHeader
  /\ (res.statusCode = 404 /\ res.ended # <<>>) => res.cacheControl # Immutable
  /\ (log.n404 > 0 /\ res.statusCode = 404 /\ pc["main"] # "renderError") =>
       res.cacheControl = NoStore

C15_Witness ==
  /\ call.depth > 0
  /\ VersionedAssetRequest
  /\ SegmentAt(Get(Get(call.parsedUrl).pathname), 3) = Plain("chunks")
  /\ log.transfers # <<>>
  /\ res.statusCode = 404
  /\ res.ended = <<"html">>
  /\ res.cacheControl = NoStore

\* C16: render is entered once per request at most: the re-dispatch of a request
\* with an internal URL never comes back to render through the catch-all.
C16_RedispatchNeverReentersRender ==
  Len(log.calls) <= 1

\* C17: a failure of the static-file collaborator with code ENOENT or statusCode
\* 404 makes serveStatic call render404; any other failure renders no error
\* page and reaches handleRequest's catch: status 500, 'Internal Server Error'.
C17_StaticFailure ==
  (log.failures # <<>> /\ log.failures[1].err.origin = "serveStatic") =>
    LET e == log.failures[1].err
    IN IF e.code = "ENOENT" \/ e.statusCode = 404
       THEN /\ log.n404 = 1
            /\ log.caught = <<>>
            /\ log.errorPages = <<ErrNull>> \/ pc["detached"] = "unhandled"
       ELSE /\ log.n404 = 0
            /\ log.errorPages = <<>>
            /\ log.loads = <<>>
            /\ pc["detached"] = "none"
            /\ pc["main"] # "rejected"
            /\ pc["main"] \in {"return", "resolved"} =>
                 /\ log.caught = <<e>>
                 /\ res.statusCode = 500
                 /\ res.ended = <<ISE>>

C17_Witness ==
  /\ Len(log.failures) = 1
  /\ log.failures[1].err.origin = "serveStatic"
  /\ log.failures[1].err.statusCode = 500
  /\ pc["main"] = "resolved"
  /\ res.statusCode = 500
  /\ res.ended = <<ISE>>

\* C18: a step that changes the server state changes renderOpts.assetPrefix and
\* nothing else, and is no step of a request.
C18_OnlyAssetPrefixChanges ==
  [][ server' # server =>
        /\ server' = [server EXCEPT !.renderOpts.assetPrefix =
                                      server'.renderOpts.assetPrefix]
        /\ UNCHANGED <<req, pc, call, frame, res, log>> ]_vars

C18_Witness ==
  /\ server.renderOpts.assetPrefix = <<"c">>
  /\ server.renderOpts.buildId = BuildIdOnDisk
  /\ server.renderOpts.generateEtags
  /\ server.distDir = join(resolve(ProjectDir), ConfigDistDir)
  /\ pc["main"] = "resolved"
  /\ pc["detached"] = "done"
  /\ log.renders # <<>>

\* A pathname outside the namespaces /_next and /static.
Ordinary(p) ==
  /\ ~p.bad
  /\ p.segs # <<>> => SegmentAt(p, 1) \notin {Plain("_next"), Plain("static")}

\* What C19 says of a server with the catch-all registered: the no-match fallback
\* is never taken, nothing is answered 501, and a request with another method
\* than GET or HEAD for an ordinary path goes to render.
FallbackUnreachable ==
  /\ pc["main"] # "fallback"
  /\ call.phase # "after"
  /\ res.statusCode # 501
  /\ "Not Implemented" \notin Range(res.ended)
  /\ ( /\ req.entry = "handleRequest"
       /\ req.method \notin {"GET", "HEAD"}
       /\ Dispatched # Undefined
       /\ Ordinary(Get(Dispatched))
       /\ pc["main"] \notin {"handleRequest", "run", "fn"} ) =>
         /\ log.handlers[1] = "/:path*"
         /\ \/ pc["main"] = "render" /\ call.pathname = Get(Dispatched)
            \/ log.calls # <<>> /\ log.calls[1] = Get(Dispatched)

C20_CompletedAtMostOnce ==
  Len(res.ended) <= 1

C20_Witness ==
  /\ req.entry = "handleRequest"
  /\ pc["main"] = "resolved"
  /\ pc["detached"] = "done"
  /\ log.transfers # <<>>
  /\ res.ended = <<"html">>

====
